---- MODULE Spec2Model ----
(***************************************************************************)
(* Model of uniq (src/main.rs): walk every file under a root, hash the     *)
(* files on a worker pool, group the paths by fingerprint, copy one        *)
(* representative of every group that lives only in the working directory  *)
(* to the output directory and print the sorted duplicate report.          *)
(*                                                                         *)
(* Strings are sequences of character codes, paths are sequences of        *)
(* components, so that the two orders the program uses (Path's Ord on the  *)
(* groups, String's Ord on the report) and the two format! calls are       *)
(* computed, not assumed.                                                  *)
(***************************************************************************)
EXTENDS Integers, Sequences, FiniteSets, TLC

\* ------------------------------------------------------------------ bounds
MaxFiles == 3      \* files in the tree under root
MaxContent == 3    \* distinct file contents
NumWorkers == 2    \* threads of the rayon pool
MaxBad == 1        \* I/O faults (listing, opening, copying) in one run
MaxRuns == 2       \* invocations of the program on the same input

\* ------------------------------------------------------ program constants
DigestLen == 32    \* hex characters of format!("{:x}", context.compute())

\* ------------------------------------------------------------- characters
CH ==
  [space |-> 32, dot |-> 46, slash |-> 47, zero |-> 48, eq |-> 61,
   us |-> 95, a |-> 97, c |-> 99, d |-> 100, o |-> 111, r |-> 114, w |-> 119]

Min(x, y) == IF x < y THEN x ELSE y

Range(s) == {s[i] : i \in 1..Len(s)}

\* str::cmp / OsStr::cmp: byte-wise lexicographic order
StrLess(s, t) ==
  \E k \in 0..Min(Len(s), Len(t)) :
    /\ \A i \in 1..k : s[i] = t[i]
    /\ \/ k = Len(s) /\ k < Len(t)
       \/ k < Len(s) /\ k < Len(t) /\ s[k + 1] < t[k + 1]

\* Path::cmp: lexicographic over the components, each compared as a string
PathLess(p, q) ==
  \E k \in 0..Min(Len(p), Len(q)) :
    /\ \A i \in 1..k : p[i] = q[i]
    /\ \/ k = Len(p) /\ k < Len(q)
       \/ k < Len(p) /\ k < Len(q) /\ StrLess(p[k + 1], q[k + 1])

\* Vec<PathBuf>::sort
SortPaths(s) ==
  [i \in 1..Len(s) |->
     CHOOSE x \in Range(s) :
       /\ Cardinality({j \in 1..Len(s) : PathLess(s[j], x)}) < i
       /\ i <= Cardinality({j \in 1..Len(s) : PathLess(s[j], x) \/ s[j] = x})]

\* Vec<String>::sort
SortLines(s) ==
  [i \in 1..Len(s) |->
     CHOOSE x \in Range(s) :
       /\ Cardinality({j \in 1..Len(s) : StrLess(s[j], x)}) < i
       /\ i <= Cardinality({j \in 1..Len(s) : StrLess(s[j], x) \/ s[j] = x})]

\* Path::starts_with: whole components
starts_with(p, base) ==
  /\ Len(base) <= Len(p)
  /\ \A i \in 1..Len(base) : p[i] = base[i]

\* Path::strip_prefix(base).unwrap()
strip_prefix(p, base) == SubSeq(p, Len(base) + 1, Len(p))

\* Path::file_name().unwrap()
file_name_of(p) == p[Len(p)]

\* Path::display: the components joined by the separator
RECURSIVE display(_)
display(p) ==
  IF p = <<>> THEN <<>>
  ELSE IF Len(p) = 1 THEN p[1]
  ELSE p[1] \o <<CH.slash>> \o display(Tail(p))

\* format!("{} = {}", l, r)
FormatLine(l, r) == l \o <<CH.space, CH.eq, CH.space>> \o r

\* format!("{hash}_{file_name}")
FormatTagged(hash, file_name) == hash \o <<CH.us>> \o file_name

\* lowercase hexadecimal digit, as {:x} prints it
HexDigit(n) == IF n < 10 THEN CH.zero + n ELSE CH.a + (n - 10)

\* the fingerprint of a content: DigestLen lowercase hex digits, one value
\* per content (the digest is taken to be collision free)
Digest(content) ==
  [i \in 1..DigestLen |->
     IF i = DigestLen THEN HexDigit(content % 16)
     ELSE IF i = DigestLen - 1 THEN HexDigit((content \div 16) % 16)
     ELSE CH.zero]

\* ------------------------------------------------------------ file system
NM ==
  [r |-> <<CH.r>>, w |-> <<CH.w>>, o |-> <<CH.o>>, a |-> <<CH.a>>,
   c |-> <<CH.c>>, d |-> <<CH.d>>, d_a |-> <<CH.d, CH.dot, CH.a>>]

\* args.root
Root == <<NM.r>>

\* args.work_dir = args.root.join(args.work_dir)
WorkDir == Root \o <<NM.w>>

\* the files a tree may hold, in a fixed order: w/a, w/d/a, w/d.a,
\* w/{digest of content 1}_a, o/c
Candidates ==
  << WorkDir \o <<NM.a>>,
     WorkDir \o <<NM.d, NM.a>>,
     WorkDir \o <<NM.d_a>>,
     WorkDir \o <<FormatTagged(Digest(1), NM.a)>>,
     Root \o <<NM.o, NM.c>> >>

\* contents are labels: a tree is taken once per relabelling (the k-th file
\* uses at most one label more than the files before it)
Canonical(fs, ct) ==
  \A i \in 1..Len(Candidates) :
    Candidates[i] \in fs =>
      \A v \in 1..(ct[Candidates[i]] - 1) :
        \E j \in 1..(i - 1) : Candidates[j] \in fs /\ ct[Candidates[j]] = v

\* the directories of a tree: root, the working directory, every ancestor
DirsOf(fs) ==
  {Root, WorkDir} \cup
  UNION {{SubSeq(f, 1, k) : k \in 1..(Len(f) - 1)} : f \in fs}

VARIABLES
  files,          \* the regular files under root
  content,        \* files -> content label
  rename,         \* args.rename
  outPre,         \* the output directory before the run
  dirs,           \* FileIterator.dirs: stack of the entries each ReadDir still holds
  exhausted,      \* the bridged iterator has returned None
  held,           \* items pulled from the iterator and not mapped yet
  file_hashes,    \* the collected Vec of results
  hashed_files,   \* fingerprint -> Vec of paths
  processed,      \* fingerprints the for loop over hashed_files has visited
  ignored_files,  \* the report lines pushed so far
  outDir,         \* the output directory: set of [name, content]
  printed,        \* lines written to stdout
  phase,          \* "hashing" | "classify" | "done" | "failed"
  error,          \* the Err main returned: "none" | "walk" | "hash" | "copy"
  faults,         \* I/O faults that have happened in this run
  yielded,        \* log: path -> times the walker returned it Ok
  copyLog,        \* log: the copy calls that succeeded
  run,            \* number of the current invocation
  prev            \* outcome of the previous invocation, <<>> when none

input == <<files, content, rename, outPre>>
vars ==
  <<files, content, rename, outPre, dirs, exhausted, held, file_hashes,
    hashed_files, processed, ignored_files, outDir, printed, phase, error,
    faults, yielded, copyLog, run, prev>>

None == [tag |-> "none", path |-> <<>>]

\* an I/O call may fail while the run has faults left
MayFail == faults < MaxBad

\* path.is_dir()
is_dir(p) == p \in DirsOf(files)

\* read_dir(d): the entries of directory d (in no order)
read_dir(d) ==
  {p \in files \cup DirsOf(files) : Len(p) = Len(d) + 1 /\ starts_with(p, d)}

Push(stack, x) == Append(stack, x)
Pop(stack) == SubSeq(stack, 1, Len(stack) - 1)
SetLast(stack, x) == [stack EXCEPT ![Len(stack)] = x]

\* FileIterator::next with the push of a subdirectory replaced by overwriting
\* the directory on top of the stack
RECURSIVE NextOutcomes_overwrite(_)
NextOutcomes_overwrite(stack) ==
  IF stack = <<>> THEN {[item |-> None, dirs |-> stack]}
  ELSE LET top == stack[Len(stack)] IN
    IF top = {} THEN NextOutcomes_overwrite(Pop(stack))
    ELSE UNION {
      LET rest == SetLast(stack, top \ {e}) IN
        (IF MayFail
           THEN {[item |-> [tag |-> "err", path |-> e], dirs |-> rest]}
           ELSE {})
        \cup
        (IF is_dir(e)
           THEN NextOutcomes_overwrite(SetLast(rest, read_dir(e)))
           ELSE {[item |-> [tag |-> "ok", path |-> e], dirs |-> rest]})
      : e \in top }

\* FileIterator::next: every (item, dirs afterwards) the loop can end with.
\* An open directory hands out its remaining entries in any order; an entry
\* may come as Err, and read_dir of a subdirectory may fail: both return
\* Some(Err) with the entry consumed.
RECURSIVE NextOutcomes(_)
NextOutcomes(stack) ==
  IF stack = <<>> THEN {[item |-> None, dirs |-> stack]}
  ELSE LET top == stack[Len(stack)] IN
    IF top = {} THEN NextOutcomes(Pop(stack))
    ELSE UNION {
      LET rest == SetLast(stack, top \ {e}) IN
        (IF MayFail
           THEN {[item |-> [tag |-> "err", path |-> e], dirs |-> rest]}
           ELSE {})
        \cup
        (IF is_dir(e)
           THEN NextOutcomes(Push(rest, read_dir(e)))
           ELSE {[item |-> [tag |-> "ok", path |-> e], dirs |-> rest]})
      : e \in top }

\* path.and_then(hash); io_ok is whether File::open and every read succeed
HashResult(item, io_ok) ==
  IF item.tag = "err"
    THEN [tag |-> "walkerr", path |-> item.path, hash |-> <<>>]
  ELSE IF ~io_ok
    THEN [tag |-> "hasherr", path |-> item.path, hash |-> <<>>]
  ELSE [tag |-> "ok", path |-> item.path, hash |-> Digest(content[item.path])]

\* collect() returning as soon as the iterator is drained
CollectDone_early == exhausted

\* collect() returns: the iterator is drained and every pulled item is mapped
CollectDone == exhausted /\ held = {}

\* index of the first Err in the results, 0 when there is none
FirstErr(results) ==
  IF \E i \in 1..Len(results) : results[i].tag # "ok"
    THEN CHOOSE i \in 1..Len(results) :
           /\ results[i].tag # "ok"
           /\ \A j \in 1..(i - 1) : results[j].tag = "ok"
    ELSE 0

\* the loop over file_hashes with Err results skipped instead of returned
MapLoop_skip(results) ==
  LET oks == SelectSeq(results, LAMBDA x : x.tag = "ok") IN
  [error |-> "none",
   map |-> [h \in {oks[i].hash : i \in 1..Len(oks)} |->
              LET same == SelectSeq(oks, LAMBDA x : x.hash = h)
              IN [i \in 1..Len(same) |-> same[i].path]]]

\* for file_hash in file_hashes { let (path, hash) = file_hash?;
\*   hashed_files.entry(hash).or_insert_with(Vec::new).push(path) }
MapLoop(results) ==
  LET e == FirstErr(results)
      oks == IF e = 0 THEN results ELSE SubSeq(results, 1, e - 1)
  IN
  [error |-> IF e = 0 THEN "none"
             ELSE IF results[e].tag = "walkerr" THEN "walk" ELSE "hash",
   map |-> [h \in {oks[i].hash : i \in 1..Len(oks)} |->
              LET same == SelectSeq(oks, LAMBDA x : x.hash = h)
              IN [i \in 1..Len(same) |-> same[i].path]]]

\* same_files left in the order of insertion
SameFiles_unsorted(paths) == paths

\* same_files.sort()
SameFiles(paths) == SortPaths(paths)

\* same_files.iter().filter(|file| file.starts_with(&args.work_dir))
WorkingFiles(same_files) ==
  SelectSeq(same_files, LAMBDA f : starts_with(f, WorkDir))

\* the search for a file outside args.root instead of outside args.work_dir
ExistingFile_root(same_files) ==
  LET ext == SelectSeq(same_files, LAMBDA f : ~starts_with(f, Root))
  IN IF ext = <<>> THEN <<>> ELSE <<ext[1]>>

\* same_files.iter().find(|file| !file.starts_with(&args.work_dir)), as a
\* sequence of at most one path
ExistingFile(same_files) ==
  LET ext == SelectSeq(same_files, LAMBDA f : ~starts_with(f, WorkDir))
  IN IF ext = <<>> THEN <<>> ELSE <<ext[1]>>

\* out_file.exists()
Exists(out, name) == \E f \in out : f.name = name

\* the destination name without the test for an existing file
DestName_nocheck(hash, working_file, out) ==
  LET base == file_name_of(working_file)
  IN IF rename THEN FormatTagged(hash, base) ELSE base

\* the file name the representative is copied under
DestName(hash, working_file, out) ==
  LET base == file_name_of(working_file)
      first == IF rename THEN FormatTagged(hash, base) ELSE base
  IN IF ~rename /\ Exists(out, first) THEN FormatTagged(hash, first) ELSE first

\* copy(from, to): creates or overwrites
Copy(out, name, ct) ==
  {f \in out : f.name # name} \cup {[name |-> name, content |-> ct]}

\* working_file.strip_prefix(&args.work_dir).unwrap().display()
RelWork(f) == display(strip_prefix(f, WorkDir))

\* existing_file.strip_prefix(&args.root).unwrap().display()
RelRoot(f) == display(strip_prefix(f, Root))

\* main up to the start of hashing
Fresh ==
  /\ dirs = <<read_dir(Root)>>
  /\ exhausted = FALSE
  /\ held = {}
  /\ file_hashes = <<>>
  /\ hashed_files = <<>>
  /\ processed = {}
  /\ ignored_files = <<>>
  /\ outDir = outPre
  /\ printed = <<>>
  /\ phase = "hashing"
  /\ error = "none"
  /\ faults = 0
  /\ yielded = [p \in files \cup DirsOf(files) |-> 0]
  /\ copyLog = {}

Init ==
  /\ files \in {fs \in SUBSET Range(Candidates) :
                  Cardinality(fs) >= 1 /\ Cardinality(fs) <= MaxFiles}
  /\ content \in {ct \in [files -> 1..MaxContent] : Canonical(files, ct)}
  /\ rename \in BOOLEAN
  /\ outPre \in {{}, {[name |-> NM.a, content |-> 0]}}
  /\ run = 1
  /\ prev = <<>>
  /\ Fresh

\* ----------------------------------------------------------------- actions

\* a worker of the bridge pulls the next item: FileIterator::next, under the
\* bridge's lock
WorkerNext ==
  /\ phase = "hashing"
  /\ ~exhausted
  /\ Cardinality(held) < NumWorkers
  /\ \E o \in NextOutcomes(dirs) :
       /\ dirs' = o.dirs
       /\ exhausted' = (o.item = None)
       /\ held' = IF o.item = None THEN held ELSE held \cup {o.item}
       /\ faults' = IF o.item.tag = "err" THEN faults + 1 ELSE faults
       /\ yielded' = IF o.item.tag = "ok"
                       THEN [yielded EXCEPT ![o.item.path] = @ + 1]
                       ELSE yielded
  /\ UNCHANGED <<input, file_hashes, hashed_files, processed, ignored_files,
                 outDir, printed, phase, error, copyLog, run, prev>>

\* a worker maps its item (path.and_then(hash)) and hands the result to
\* collect
WorkerHash(item, io_ok) ==
  /\ phase = "hashing"
  /\ item \in held
  /\ io_ok \/ (item.tag = "ok" /\ MayFail)
  /\ file_hashes' = Append(file_hashes, HashResult(item, io_ok))
  /\ held' = held \ {item}
  /\ faults' = IF io_ok THEN faults ELSE faults + 1
  /\ UNCHANGED <<input, dirs, exhausted, hashed_files, processed, ignored_files,
                 outDir, printed, phase, error, yielded, copyLog, run, prev>>

\* collect() has returned; the loop over file_hashes consumes the Vec, builds
\* hashed_files and returns the first Err it meets
BuildMap ==
  /\ phase = "hashing"
  /\ CollectDone
  /\ LET m == MapLoop(file_hashes) IN
       /\ hashed_files' = m.map
       /\ error' = m.error
       /\ phase' = IF m.error = "none" THEN "classify" ELSE "failed"
  /\ file_hashes' = <<>>
  /\ UNCHANGED <<input, dirs, exhausted, held, processed, ignored_files,
                 outDir, printed, faults, yielded, copyLog, run, prev>>

\* one iteration of the loop over hashed_files (the map hands out its entries
\* in any order); copy_ok is whether copy() succeeds
ProcessGroup(hash, copy_ok) ==
  /\ phase = "classify"
  /\ hash \in (DOMAIN hashed_files) \ processed
  /\ copy_ok \/ MayFail
  /\ LET same_files == SameFiles(hashed_files[hash])
         working_files == WorkingFiles(same_files)
         existing_file == ExistingFile(same_files)
     IN
       /\ hashed_files' = [hashed_files EXCEPT ![hash] = same_files]
       /\ processed' = processed \cup {hash}
       /\ IF working_files = <<>> THEN
            /\ copy_ok
            /\ UNCHANGED <<ignored_files, outDir, copyLog, phase, error, faults>>
          ELSE IF existing_file # <<>> THEN
            /\ copy_ok
            /\ ignored_files' =
                 Append(ignored_files,
                        FormatLine(RelWork(working_files[1]),
                                   RelRoot(existing_file[1])))
            /\ UNCHANGED <<outDir, copyLog, phase, error, faults>>
          ELSE
            LET working_file == working_files[1]
                file_name == DestName(hash, working_file, outDir)
            IN IF copy_ok THEN
                 /\ outDir' = Copy(outDir, file_name, content[working_file])
                 /\ copyLog' = copyLog \cup
                      {[src |-> working_file, dst |-> file_name, hash |-> hash]}
                 /\ ignored_files' =
                      ignored_files \o
                      [i \in 1..(Len(working_files) - 1) |->
                         FormatLine(RelWork(working_files[i + 1]), file_name)]
                 /\ UNCHANGED <<phase, error, faults>>
               ELSE
                 /\ phase' = "failed"
                 /\ error' = "copy"
                 /\ faults' = faults + 1
                 /\ UNCHANGED <<ignored_files, outDir, copyLog>>
  /\ UNCHANGED <<input, dirs, exhausted, held, file_hashes, printed, yielded,
                 run, prev>>

\* ignored_files.sort() and the println! loop
Report ==
  /\ phase = "classify"
  /\ processed = DOMAIN hashed_files
  /\ printed' = SortLines(ignored_files)
  /\ phase' = "done"
  /\ UNCHANGED <<input, dirs, exhausted, held, file_hashes, hashed_files,
                 processed, ignored_files, outDir, error, faults, yielded,
                 copyLog, run, prev>>

\* the program is started again on the same tree, with the output directory
\* as it was before the first run
Rerun ==
  /\ phase = "done"
  /\ run < MaxRuns
  /\ run' = run + 1
  /\ prev' = [out |-> outDir, report |-> printed]
  /\ dirs' = <<read_dir(Root)>>
  /\ exhausted' = FALSE
  /\ held' = {}
  /\ file_hashes' = <<>>
  /\ hashed_files' = <<>>
  /\ processed' = {}
  /\ ignored_files' = <<>>
  /\ outDir' = outPre
  /\ printed' = <<>>
  /\ phase' = "hashing"
  /\ error' = "none"
  /\ faults' = 0
  /\ yielded' = [p \in files \cup DirsOf(files) |-> 0]
  /\ copyLog' = {}
  /\ UNCHANGED input

Next ==
  \/ WorkerNext
  \/ \E item \in held, io_ok \in BOOLEAN : WorkerHash(item, io_ok)
  \/ BuildMap
  \/ \E hash \in DOMAIN hashed_files, copy_ok \in BOOLEAN : ProcessGroup(hash, copy_ok)
  \/ Report

Spec == Init /\ [][Next]_vars

\* the run up to the end of map construction, for the flags that stage never
\* reads held fixed
InitWalk == Init /\ ~rename /\ outPre = {}

NextWalk ==
  \/ WorkerNext
  \/ \E item \in held, io_ok \in BOOLEAN : WorkerHash(item, io_ok)
  \/ BuildMap

\* the pool keeps running its workers and main keeps running its loop: a
\* step that can be taken is taken
WalkSpec == InitWalk /\ [][NextWalk]_vars /\ WF_vars(NextWalk)

\* two invocations in a row
NextTwice == Next \/ Rerun

SpecTwice == Init /\ [][NextTwice]_vars

\* ------------------------------------------------------------------ claims

\* a path under the working directory
Working(f) == starts_with(f, WorkDir)

\* the fingerprint group of f: the files with the bytes of f
Group(f) == {g \in files : content[g] = content[f]}

\* the group of f holds a file outside the working directory
HasExternal(f) == \E g \in Group(f) : ~Working(g)

\* the groups that live in the working directory only
UniqueGroups == {Group(f) : f \in {g \in files : Working(g) /\ ~HasExternal(g)}}

Lines == Range(printed)

\* C1: after a successful run every working file whose group holds a
\* non-working file has a report line "<working-relative path> =
\* <root-relative path of a non-working file of the group>".
C1_EveryWorkingFileReported ==
  phase = "done" =>
    \A f \in files :
      (Working(f) /\ HasExternal(f)) =>
        \E g \in Group(f) :
          ~Working(g) /\ FormatLine(RelWork(f), RelRoot(g)) \in Lines

\* C2: no copy is ever made from a working file whose group also holds a
\* non-working file; the output directory changes only through such copies.
C2_NoCopyWhenExternal ==
  /\ \A c \in copyLog : \A g \in Group(c.src) : Working(g)
  /\ \A f \in outDir \ outPre :
       \E c \in copyLog : c.dst = f.name /\ content[c.src] = f.content

C2_Witness ==
  /\ phase = "done"
  /\ copyLog # {}
  /\ \E f \in files : Working(f) /\ HasExternal(f)

\* the least member of G in the order Less
First(G, Less(_, _)) == CHOOSE f \in G : \A g \in G \ {f} : Less(f, g)

\* after a successful run, of every group of two or more working files and
\* no other file exactly one member is copied, the first in the order Less,
\* and every other member has the line "<relative path> = <name of the copy>"
RepresentativeIs(Less(_, _)) ==
  phase = "done" =>
    \A G \in UniqueGroups :
      Cardinality(G) >= 2 =>
        LET copies == {c \in copyLog : c.src \in G} IN
          /\ Cardinality(copies) = 1
          /\ \A c \in copies :
               /\ c.src = First(G, Less)
               /\ \E f \in outDir : f.name = c.dst
               /\ \A g \in G \ {c.src} :
                    FormatLine(RelWork(g), c.dst) \in Lines

\* the order of the full path strings
FullStringLess(f, g) == StrLess(display(f), display(g))

\* C3 as stated: the representative is the first member in the character-wise
\* order of the full path strings.
C3_FirstByPathString == RepresentativeIs(FullStringLess)

\* C3 amended: the representative is the first member in the order of paths,
\* which compares component by component.
C3_FirstByComponents == RepresentativeIs(PathLess)

C3_Witness ==
  /\ phase = "done"
  /\ \E G \in UniqueGroups :
       /\ \E f, g \in G : PathLess(f, g) /\ FullStringLess(g, f)
       /\ \E c \in copyLog : c.src \in G

\* C4: after a successful run that started with an empty output directory,
\* the directory holds one file per group that lives in the working directory
\* only, and the names of the copies are pairwise distinct.
C4_OneFilePerUniqueGroup ==
  (phase = "done" /\ outPre = {}) =>
    /\ Cardinality(outDir) = Cardinality(UniqueGroups)
    /\ \A c1, c2 \in copyLog : c1.dst = c2.dst => c1 = c2

\* C5: with rename mode off, a copy made while a file with the
\* representative's base name exists goes to "{fingerprint}_{basename}" and
\* leaves that file as it was.
C5_RetagKeepsExisting ==
  [][(~rename /\ copyLog' # copyLog) =>
       \A c \in copyLog' \ copyLog :
         \A f \in outDir :
           f.name = file_name_of(c.src) =>
             /\ c.dst = FormatTagged(c.hash, f.name)
             /\ f \in outDir']_vars

C5_Witness ==
  /\ ~rename
  /\ \E c \in copyLog :
       /\ c.dst = FormatTagged(c.hash, file_name_of(c.src))
       /\ \E f \in outDir : f.name = file_name_of(c.src) /\ f \in outPre

\* C6: a second run on the same tree, with the same flags and an empty output
\* directory, ends with the output directory and the report of the first.
C6_SameOutcomeTwice ==
  (phase = "done" /\ run > 1 /\ outPre = {}) =>
    prev = [out |-> outDir, report |-> printed]

\* C7: a run in which traversal or hashing failed has ended in failure once
\* hashing is over, with nothing copied and nothing reported.
C7_NoPartialResult ==
  (faults > 0 /\ error # "copy" /\ phase # "hashing") =>
    /\ phase = "failed"
    /\ error \in {"walk", "hash"}
    /\ outDir = outPre
    /\ copyLog = {}
    /\ ignored_files = <<>>
    /\ printed = <<>>

C7_Witness ==
  /\ phase = "failed"
  /\ error = "hash"
  /\ DOMAIN hashed_files # {}

\* C8: a group is classified, a line pushed or a file copied only when the
\* walker is drained, no item is in flight and every file the walker returned
\* is in the map under its fingerprint.
C8_Barrier ==
  (processed # {} \/ ignored_files # <<>> \/ copyLog # {} \/ outDir # outPre) =>
    /\ exhausted
    /\ held = {}
    /\ \A p \in DOMAIN yielded :
         yielded[p] > 0 =>
           /\ Digest(content[p]) \in DOMAIN hashed_files
           /\ p \in Range(hashed_files[Digest(content[p])])

C8_Witness ==
  /\ copyLog # {}
  /\ ignored_files # <<>>
  /\ Cardinality(files) >= MaxFiles

\* C9: once the hash of a file has failed, the walker hands out no further
\* file.
C9_NothingAfterHashFailure ==
  [][(\E i \in 1..Len(file_hashes) : file_hashes[i].tag = "hasherr") =>
       yielded' = yielded]_vars

\* no listing error has come out of the walker
NoWalkErr ==
  /\ \A i \in 1..Len(file_hashes) : file_hashes[i].tag # "walkerr"
  /\ \A item \in held : item.tag # "err"

\* how often path p occurs in the groups of the map
Occurrences(p) ==
  LET Count(h) == Cardinality({i \in 1..Len(hashed_files[h]) : hashed_files[h][i] = p})
      RECURSIVE Sum(_)
      Sum(S) == IF S = {} THEN 0
                ELSE LET h == CHOOSE x \in S : TRUE IN Count(h) + Sum(S \ {h})
  IN Sum(DOMAIN hashed_files)

WalkComplete ==
  (phase = "hashing" /\ exhausted /\ NoWalkErr) =>
    /\ \A f \in files : yielded[f] = 1
    /\ \A d \in DirsOf(files) : yielded[d] = 0

MapComplete ==
  phase = "classify" =>
    /\ \A f \in files :
         /\ Occurrences(f) = 1
         /\ Digest(content[f]) \in DOMAIN hashed_files
         /\ f \in Range(hashed_files[Digest(content[f])])
    /\ \A h \in DOMAIN hashed_files : Range(hashed_files[h]) \subseteq files

\* C10: the walker is drained in every run; without listing errors it has
\* then returned every file once and no directory; and the map, once built,
\* holds every file once, in the group of its fingerprint.
C10_WalkAndMapComplete ==
  /\ <>exhausted
  /\ []WalkComplete
  /\ []MapComplete

C10_Witness ==
  /\ phase = "classify"
  /\ Cardinality(files) >= MaxFiles
  /\ Cardinality(DirsOf(files)) >= 4
  /\ Cardinality(DOMAIN hashed_files) >= 2

====
